---------------------------- MODULE Spec2Model ----------------------------
(***************************************************************************)
(* The tool-calling session of src/mcp-client/index.ts (callMcpClient) and *)
(* the calendar tool handlers it reaches through the MCP peer; further     *)
(* down the iCalendar codec (escapeText, generateICal), the createEvent    *)
(* tool with its calls of the calendar backend, and the audioTranscription *)
(* middleware, each with a specification of its own.                       *)
(*                                                                         *)
(* A session is one invocation of callMcpClient.  Its local variables are  *)
(* entries, indexed by the session, of the functions declared below.  The  *)
(* function suspends only at its awaits, so one action is the code that    *)
(* runs from the settling of one awaited operation up to the next await.   *)
(*                                                                         *)
(* Text is a sequence of tokens.  A token is one whitespace character      *)
(* (" ", "\n", "\t") or a piece of text that neither starts nor ends with  *)
(* whitespace.  An optional field of a TypeScript object (content,         *)
(* tool_calls, tool_call_id) is a record field that may be missing.        *)
(***************************************************************************)
EXTENDS Integers, Sequences, FiniteSets, TLC

VARIABLES
    pc,            \* the await the invocation is suspended at
    transport,     \* the StreamableHTTPClientTransport of the invocation
    closes,        \* number of transport.close() calls made
    messages,      \* const messages: ChatMessage[]
    message,       \* const message = data.choices[0].message of the round
    round,         \* let round
    toolCalls,     \* const toolCalls: string[]
    cur,           \* position of the for-of loop in message.tool_calls
    chatRequests,  \* number of POSTs to /v1/chat/completions sent
    callLog,       \* the callTool requests the peer received, in order
    completion,    \* how the try block completed, held while finally runs
    result,        \* what the caller of callMcpClient has observed
    origin,        \* history: the session whose code pushed messages[k]
    rejected,      \* history: the awaited operation that rejected, if any
    used,          \* history: variations the environment has spent
    strArg,        \* escapeText: the argument str
    escaped,       \* escapeText: what the call returned
    event,         \* generateICal: the argument event
    ical,          \* generateICal: how the call completed
    hpc,           \* createEvent tool: the await the handler is suspended at
    toolInput,     \* createEvent tool: the validated input
    startDate,     \* createEvent tool: const startDate
    endDate,       \* createEvent tool: const endDate
    calendar,      \* the events the calendar backend holds, by url
    backendCalls,  \* the calls the calendar backend received, in order
    toolResult,    \* createEvent tool: what the handler returned
    mpc,           \* audioTranscription: the await it is suspended at
    req,           \* audioTranscription: the request as multer passed it on
    body,          \* audioTranscription: req.body
    proxyUrl,      \* process.env.OPENAI_PROXY_URL
    nextCalls      \* the calls of next() made for the request, in order

sessionVars == <<pc, transport, closes, messages, message, round, toolCalls,
                 cur, chatRequests, callLog, completion, result, origin,
                 rejected, used>>

codecVars == <<strArg, escaped, event, ical>>

handlerVars == <<hpc, toolInput, startDate, endDate, calendar, backendCalls,
                 toolResult>>

middlewareVars == <<mpc, req, body, proxyUrl, nextCalls>>

vars == <<sessionVars, codecVars, handlerVars, middlewareVars>>

-----------------------------------------------------------------------------
(* Bounds of the model *)

\* Concurrent invocations of callMcpClient.
NumSessions == 2

\* How many times, per session, the chat endpoint and the calendar backend
\* may depart from the plain behaviour (one listEvents call with "{}" per
\* round, every backend call succeeding).
MaxVariations == 2

Sessions == 1..NumSessions

\* const maxRounds = 5
maxRounds == 5

-----------------------------------------------------------------------------
(* Text *)

IsWhitespace(t) == t \in {" ", "\n", "\t"}

MinOf(S) == CHOOSE x \in S : \A y \in S : x <= y
MaxOf(S) == CHOOSE x \in S : \A y \in S : y <= x

\* String.prototype.trim
Trim(str) ==
    LET keep == {i \in 1..Len(str) : ~IsWhitespace(str[i])}
    IN  IF keep = {} THEN <<>> ELSE SubSeq(str, MinOf(keep), MaxOf(keep))

\* Array.prototype.join
RECURSIVE Join(_, _)
Join(parts, sep) ==
    IF Len(parts) = 0 THEN <<>>
    ELSE IF Len(parts) = 1 THEN parts[1]
    ELSE parts[1] \o <<sep>> \o Join(Tail(parts), sep)


-----------------------------------------------------------------------------
(* The chat endpoint: what data.choices[0].message can be *)

\* The tools the MCP server registers.
ToolNames == {"createEvent", "listEvents", "listEventsByRange"}

DefaultTool == "listEvents"

\* Argument payloads (toolCall.function.arguments is a string).
DefaultPayload == "{}"
FullPayload == "{\"start\":\"2025-01-01T10:00:00\",\"end\":\"2025-01-01T11:00:00\",\"title\":\"T\"}"
BadPayload == "{oops"
Payloads == {DefaultPayload, FullPayload, BadPayload}

DefaultContent == <<"answer">>
\* content: "" and content padded with whitespace
OtherContents == {<<>>, <<" ", "answer", "\n">>}

\* interface ToolCall, the k-th of a message when nothing varies
DefaultCall(k) ==
    [id |-> k, type |-> "function",
     function |-> [name |-> DefaultTool, arguments |-> DefaultPayload]]

Bit(b) == IF b THEN 1 ELSE 0

CallCost(c, k) ==
    Bit(c.id # k) + Bit(c.function.name # DefaultTool)
    + Bit(c.function.arguments # DefaultPayload)

\* The calls a message of n calls can hold at position k at a cost of at
\* most r: the id may repeat the id of another position of the message.
CallVariants(k, n, r) ==
    {c \in [id : 1..n, type : {"function"},
            function : [name : ToolNames, arguments : Payloads]] :
        CallCost(c, k) <= r}

RECURSIVE SeqCost(_)
SeqCost(tcs) ==
    IF Len(tcs) = 0 THEN 0
    ELSE SeqCost(SubSeq(tcs, 1, Len(tcs) - 1)) + CallCost(tcs[Len(tcs)], Len(tcs))

\* The sequences of k calls, the first k of a message of n, costing at most r.
RECURSIVE CallSeqs(_, _, _)
CallSeqs(k, n, r) ==
    IF k = 0 THEN {<<>>}
    ELSE UNION {{Append(p, c) : c \in CallVariants(k, n, r - SeqCost(p))} :
                  p \in CallSeqs(k - 1, n, r)}

\* interface ChatMessage, role "assistant".  A message that asks for n > 1
\* tools spends n - 1 variations.
ContentCost(m) == Bit(~("content" \in DOMAIN m) \/ m.content # DefaultContent)

ReplyCost(m) ==
    ContentCost(m)
    + (IF "tool_calls" \in DOMAIN m /\ Len(m.tool_calls) > 0
       THEN Len(m.tool_calls) - 1 + SeqCost(m.tool_calls) ELSE 0)

ContentShapes(r) ==
    {[role |-> "assistant", content |-> DefaultContent]}
    \cup (IF r >= 1
          THEN {[role |-> "assistant"]}
               \cup {[role |-> "assistant", content |-> c] : c \in OtherContents}
          ELSE {})

Replies(b) ==
    LET final == UNION {{m, m @@ [tool_calls |-> <<>>]} : m \in ContentShapes(b)}
        asking(n) ==
            UNION {{m @@ [tool_calls |-> tcs] : m \in ContentShapes(b - (n - 1) - SeqCost(tcs))} :
                     tcs \in CallSeqs(n, n, b - (n - 1))}
    IN  final \cup UNION {asking(n) : n \in 1..(b + 1)}

ReplyTable == [b \in 0..MaxVariations |-> Replies(b)]

-----------------------------------------------------------------------------
(* The MCP peer: JSON arguments, input schemas and tool handlers *)

EmptyArgs == [k \in {} |-> <<>>]

\* JSON.parse on the payloads of the model
ParsesAsJson(p) == p \in {DefaultPayload, FullPayload}

JsonParse(p) ==
    IF p = FullPayload
    THEN [start |-> <<"2025-01-01T10:00:00">>, end |-> <<"2025-01-01T11:00:00">>,
          title |-> <<"T">>]
    ELSE EmptyArgs

\* createEventInputSchema, z.object({}), listEventsByDateRangeInputSchema
SchemaAccepts(name, args) ==
    CASE name = "createEvent" -> {"start", "title"} \subseteq DOMAIN args
      [] name = "listEvents" -> TRUE
      [] name = "listEventsByRange" -> {"start", "end"} \subseteq DOMAIN args

\* (error as Error).message of a calendar backend failure
BackendErrors == {<<"boom">>, <<"boom", "\n">>}

SuccessText(name) ==
    CASE name = "createEvent" -> <<"Event created successfully for \"T\" from S to E.">>
      [] name = "listEvents" -> <<"Events retrieved successfully:", " ", "[]">>
      [] name = "listEventsByRange" ->
            <<"Events retrieved successfully for range S to E:", " ", "[]">>

FailurePrefix(name) ==
    CASE name = "createEvent" -> "Failed to create event:"
      [] name = "listEvents" -> "Failed to list events:"
      [] name = "listEventsByRange" -> "Failed to list events by date range:"

FailurePrefixes == {FailurePrefix(n) : n \in ToolNames}

TextResult(text) == [content |-> <<[type |-> "text", text |-> text]>>]

\* What the calendar backend does under a handler: it returns, or it throws
\* an error with a message.
BackendReturns == [threw |-> FALSE]
BackendThrows(e) == [threw |-> TRUE, message |-> e]

\* A tool handler: try { ... return success text } catch (error)
\* { return "Failed to ...: " + error.message }
ToolHandler(name, backend) ==
    IF backend.threw
    THEN TextResult(<<FailurePrefix(name), " ">> \o backend.message)
    ELSE TextResult(SuccessText(name))

\* What the peer answers to a request the input schema refuses, when it
\* answers at all: the request never reaches the handler.
InvalidArgumentsText == <<"Invalid arguments for tool">>

\* What callTool can resolve to, with r variations left.
PeerResults(request, r) ==
    IF SchemaAccepts(request.name, request.arguments)
    THEN {ToolHandler(request.name, BackendReturns)}
         \cup (IF r >= 1
               THEN {ToolHandler(request.name, BackendThrows(e)) : e \in BackendErrors}
               ELSE {})
    ELSE {TextResult(InvalidArgumentsText)}

ResultCost(res) == Bit(res.content[1].text[1] \in FailurePrefixes)

-----------------------------------------------------------------------------
(* One invocation of callMcpClient *)

\* a variable of the module, one for all invocations
Shared(f, s, v) == [t \in DOMAIN f |-> v]

\* A local variable of the invocation s: writing it touches no other
\* invocation's.
Own(f, s, v) == [f EXCEPT ![s] = v]

\* The locals of invocation s, as one record.
Local(s) ==
    [pc |-> pc[s], transport |-> transport[s], closes |-> closes[s],
     messages |-> messages[s], message |-> message[s], round |-> round[s],
     toolCalls |-> toolCalls[s], cur |-> cur[s],
     chatRequests |-> chatRequests[s], callLog |-> callLog[s],
     completion |-> completion[s], origin |-> origin[s]]

Commit(s, L) ==
    /\ pc' = Own(pc, s, L.pc)
    /\ transport' = Own(transport, s, L.transport)
    /\ closes' = Own(closes, s, L.closes)
    /\ messages' = Own(messages, s, L.messages)
    /\ message' = Own(message, s, L.message)
    /\ round' = Own(round, s, L.round)
    /\ toolCalls' = Own(toolCalls, s, L.toolCalls)
    /\ cur' = Own(cur, s, L.cur)
    /\ chatRequests' = Own(chatRequests, s, L.chatRequests)
    /\ callLog' = Own(callLog, s, L.callLog)
    /\ completion' = Own(completion, s, L.completion)
    /\ origin' = Own(origin, s, L.origin)
    /\ UNCHANGED <<codecVars, handlerVars, middlewareVars>>

NoMessage == [role |-> "none"]
Pending == [kind |-> "none"]
Returned(answer, n) == [kind |-> "returned", answer |-> answer, toolCalls |-> n]
Thrown(cause) == [kind |-> "failed", cause |-> cause]

SystemPrompt == <<"You are a calendar assistant ...">>
PromptOf(s) == <<"prompt", " ", ToString(s)>>

\* const messages: ChatMessage[] = [system, user]
Seed(s) ==
    <<[role |-> "system", content |-> SystemPrompt],
      [role |-> "user", content |-> PromptOf(s)]>>

\* messages.unshift(m)
PushFront(msgs, m) == <<m>> \o msgs

\* messages.push(m)
Push(msgs, m) == Append(msgs, m)

\* the loop condition off by one
LoopContinuesInclusive(r) == r <= maxRounds

\* while (round < maxRounds)
LoopContinues(r) == r < maxRounds

\* the test without its length check
HasNoToolCallsField(m) == ~("tool_calls" \in DOMAIN m)

\* !message.tool_calls || message.tool_calls.length === 0
HasNoToolCalls(m) == ~("tool_calls" \in DOMAIN m) \/ Len(m.tool_calls) = 0

\* the loop walking message.tool_calls from its end
CallAtReversed(tcs, k) == tcs[Len(tcs) + 1 - k]

\* for (const toolCall of message.tool_calls): the k-th iteration's toolCall
CallAt(tcs, k) == tcs[k]

\* JSON.parse without the try/catch around it
ParseArgumentsNoCatch(payload) ==
    IF ParsesAsJson(payload)
    THEN [threw |-> FALSE, args |-> JsonParse(payload)]
    ELSE [threw |-> TRUE, args |-> EmptyArgs]

\* try { args = JSON.parse(...) } catch (error) { args = {} }
ParseArguments(payload) ==
    IF ParsesAsJson(payload)
    THEN [threw |-> FALSE, args |-> JsonParse(payload)]
    ELSE [threw |-> FALSE, args |-> EmptyArgs]

\* tool_call_id: message.tool_calls[0].id
ToolMessageFirstId(toolContent, tcs, k) ==
    [role |-> "tool", content |-> toolContent, tool_call_id |-> tcs[1].id]

\* { role: "tool", content: toolContent, tool_call_id: toolCall.id }
ToolMessage(toolContent, tcs, k) ==
    [role |-> "tool", content |-> toolContent, tool_call_id |-> CallAt(tcs, k).id]

\* finalMessage.content || ""
ContentOrEmpty(m) ==
    IF "content" \in DOMAIN m /\ m.content # <<>> THEN m.content ELSE <<>>

\* the last assistant message instead of the last message
LastAssistantMessage(msgs) ==
    msgs[MaxOf({i \in 1..Len(msgs) : msgs[i].role = "assistant"})]

\* const finalMessage = messages[messages.length - 1]
FinalMessage(msgs) == msgs[Len(msgs)]

\* finally { await transport.close() }: entered with the try block's completion
EnterFinally(L, c) ==
    [L EXCEPT !.completion = c, !.closes = @ + 1, !.pc = "close"]

\* transport.close() at the end of the try block instead of in finally
ThrowPastFinally(L, cause) ==
    [L EXCEPT !.completion = Thrown(cause), !.pc = "done"]

\* catch { return { answer: "", toolCalls: toolCalls.length } }
ThrowSwallowed(L, cause) ==
    EnterFinally(L, Returned(<<>>, Len(L.toolCalls)))

\* a catch block that awaits what never settles
ThrowNeverSettles(L, cause) == [L EXCEPT !.pc = "hung"]

\* an exception leaves the try block
Throw(L, cause) == EnterFinally(L, Thrown(cause))

\* const answer = finalMessage.content; answer.trim() throws on undefined
ReturnNoDefault(L) ==
    LET m == FinalMessage(L.messages)
    IN  IF "content" \in DOMAIN m
        THEN EnterFinally(L, Returned(Trim(m.content), Len(L.toolCalls)))
        ELSE Throw(L, "TypeError")

\* return { answer: answer.trim(), toolCalls: toolCalls.length }
Return(L) ==
    LET answer == ContentOrEmpty(FinalMessage(L.messages))
    IN  EnterFinally(L, Returned(Trim(answer), Len(L.toolCalls)))

\* the head of the while loop: the next chat request, or the return
LoopHead(L) ==
    IF LoopContinues(L.round)
    THEN [L EXCEPT !.chatRequests = @ + 1, !.pc = "chat"]
    ELSE Return(L)

\* toolCalls.push(...) once per round, before the for-of loop
StartCallCountsRounds(L, k) ==
    LET toolCall == CallAt(L.message.tool_calls, k)
        parsed == ParseArguments(toolCall.function.arguments)
        L1 == [L EXCEPT !.toolCalls = IF k = 1
                                      THEN Append(@, toolCall.function.name)
                                      ELSE @,
                        !.cur = k]
    IN  IF parsed.threw
        THEN Throw(L1, "SyntaxError")
        ELSE [L1 EXCEPT !.callLog = Append(@, [name |-> toolCall.function.name,
                                                arguments |-> parsed.args]),
                        !.pc = "callTool"]

\* one iteration of the for-of loop up to await client.callTool(...)
StartCall(L, k) ==
    LET toolCall == CallAt(L.message.tool_calls, k)
        parsed == ParseArguments(toolCall.function.arguments)
        L1 == [L EXCEPT !.toolCalls = Append(@, toolCall.function.name), !.cur = k]
    IN  IF parsed.threw
        THEN Throw(L1, "SyntaxError")
        ELSE [L1 EXCEPT !.callLog = Append(@, [name |-> toolCall.function.name,
                                                arguments |-> parsed.args]),
                        !.pc = "callTool"]

\* the for-of loop from its k-th iteration on; after the last one, round++
ForLoop(L, k) ==
    IF k <= Len(L.message.tool_calls)
    THEN StartCall(L, k)
    ELSE LoopHead([L EXCEPT !.round = @ + 1, !.cur = 0])

\* from the chat response to the next await
AfterChat(L, s, m) ==
    LET L1 == [L EXCEPT !.messages = Push(@, m), !.origin = Push(@, s),
                        !.message = m]
    IN  IF HasNoToolCalls(m) THEN Return(L1) ELSE ForLoop(L1, 1)

\* from the callTool result to the next await
AfterCallTool(L, s, res) ==
    LET toolContent == Join([i \in 1..Len(res.content) |-> res.content[i].text], "\n")
        tcs == L.message.tool_calls
        L1 == [L EXCEPT !.messages = Push(@, ToolMessage(toolContent, tcs, L.cur)),
                        !.origin = Push(@, s)]
    IN  ForLoop(L1, L.cur + 1)

-----------------------------------------------------------------------------
(* Actions: b is the number of variations the environment may spend *)

SessionInit ==
    /\ pc = [s \in Sessions |-> "idle"]
    /\ transport = [s \in Sessions |-> "none"]
    /\ closes = [s \in Sessions |-> 0]
    /\ messages = [s \in Sessions |-> <<>>]
    /\ message = [s \in Sessions |-> NoMessage]
    /\ round = [s \in Sessions |-> 0]
    /\ toolCalls = [s \in Sessions |-> <<>>]
    /\ cur = [s \in Sessions |-> 0]
    /\ chatRequests = [s \in Sessions |-> 0]
    /\ callLog = [s \in Sessions |-> <<>>]
    /\ completion = [s \in Sessions |-> Pending]
    /\ result = [s \in Sessions |-> Pending]
    /\ origin = [s \in Sessions |-> <<>>]
    /\ rejected = [s \in Sessions |-> "none"]
    /\ used = [s \in Sessions |-> 0]

\* escapeText and generateICal have not been called.
NotCalled == [done |-> FALSE]
NoEvent == [none |-> TRUE]

CodecIdle ==
    /\ strArg = <<>>
    /\ escaped = NotCalled
    /\ event = NoEvent
    /\ ical = NotCalled

\* The createEvent tool has not been invoked.
HandlerIdle ==
    /\ hpc = "idle"
    /\ toolInput = NoEvent
    /\ startDate = NoEvent
    /\ endDate = NoEvent
    /\ calendar = {}
    /\ backendCalls = <<>>
    /\ toolResult = NotCalled

\* No request has reached audioTranscription.
MiddlewareIdle ==
    /\ mpc = "idle"
    /\ req = NoEvent
    /\ body = NoEvent
    /\ proxyUrl = FALSE
    /\ nextCalls = <<>>

Init == SessionInit /\ CodecIdle /\ HandlerIdle /\ MiddlewareIdle

\* callMcpClient(prompt) up to await client.connect(transport)
Start(s) ==
    /\ pc[s] = "idle"
    /\ Commit(s, [Local(s) EXCEPT !.transport = "created", !.pc = "connect"])
    /\ UNCHANGED <<result, rejected, used>>

\* connect resolves; up to await client.listTools()
ConnectResolved(s) ==
    /\ pc[s] = "connect"
    /\ Commit(s, [Local(s) EXCEPT !.transport = "started", !.pc = "listTools"])
    /\ UNCHANGED <<result, rejected, used>>

ConnectRejected(s) ==
    /\ pc[s] = "connect"
    /\ Commit(s, Throw(Local(s), "connect"))
    /\ rejected' = [rejected EXCEPT ![s] = "connect"]
    /\ UNCHANGED <<result, used>>

\* listTools resolves; the conversation is seeded and the loop entered
ListToolsResolved(s) ==
    /\ pc[s] = "listTools"
    /\ Commit(s, LoopHead([Local(s) EXCEPT !.messages = Seed(s),
                                           !.origin = <<s, s>>,
                                           !.round = 0, !.toolCalls = <<>>]))
    /\ UNCHANGED <<result, rejected, used>>

ListToolsRejected(s) ==
    /\ pc[s] = "listTools"
    /\ Commit(s, Throw(Local(s), "listTools"))
    /\ rejected' = [rejected EXCEPT ![s] = "listTools"]
    /\ UNCHANGED <<result, used>>

\* the chat endpoint answers with the message m
ChatResolved(s, b) ==
    /\ pc[s] = "chat"
    /\ \E m \in ReplyTable[b - used[s]] :
          /\ Commit(s, AfterChat(Local(s), s, m))
          /\ used' = [used EXCEPT ![s] = @ + ReplyCost(m)]
    /\ UNCHANGED <<result, rejected>>

\* fetchData throws (network error, error status, a body without choices)
ChatRejected(s) ==
    /\ pc[s] = "chat"
    /\ Commit(s, Throw(Local(s), "chat"))
    /\ rejected' = [rejected EXCEPT ![s] = "chat"]
    /\ UNCHANGED <<result, used>>

\* the peer answers the callTool request
CallToolResolved(s, b) ==
    /\ pc[s] = "callTool"
    /\ \E res \in PeerResults(callLog[s][Len(callLog[s])], b - used[s]) :
          /\ Commit(s, AfterCallTool(Local(s), s, res))
          /\ used' = [used EXCEPT ![s] = @ + ResultCost(res)]
    /\ UNCHANGED <<result, rejected>>

\* callTool rejects (transport error, protocol error)
CallToolRejected(s) ==
    /\ pc[s] = "callTool"
    /\ Commit(s, Throw(Local(s), "callTool"))
    /\ rejected' = [rejected EXCEPT ![s] = "callTool"]
    /\ UNCHANGED <<result, used>>

\* transport.close() resolves; the completion reaches the caller
CloseResolved(s) ==
    /\ pc[s] = "close"
    /\ Commit(s, [Local(s) EXCEPT !.transport = "closed", !.pc = "done"])
    /\ result' = [result EXCEPT ![s] = completion[s]]
    /\ UNCHANGED <<rejected, used>>

Step(s, b) ==
    \/ Start(s)
    \/ ConnectResolved(s)
    \/ ConnectRejected(s)
    \/ ListToolsResolved(s)
    \/ ListToolsRejected(s)
    \/ ChatResolved(s, b)
    \/ ChatRejected(s)
    \/ CallToolResolved(s, b)
    \/ CallToolRejected(s)
    \/ CloseResolved(s)

\* One session, a varying environment.
Next == Step(1, MaxVariations)

Spec == Init /\ [][Next]_vars

\* One session where every awaited operation is eventually settled: each
\* action is the settling of the one operation the session awaits.
MaxLiveVariations == 1

NextLive == Step(1, MaxLiveVariations)

SpecLive == Init /\ [][NextLive]_vars /\ WF_vars(NextLive)

\* Concurrent sessions interleaved at their awaits, a plain environment.
NextConc == \E s \in Sessions : Step(s, 0)

SpecConc == Init /\ [][NextConc]_vars

-----------------------------------------------------------------------------
(* The iCalendar codec of src/utils/ical-lib.ts *)

\* A string is the sequence of its characters.
MaxTextLen == 3

Chars == {"\\", ",", ";", "\n", "n", "a"}

StringsOver(alphabet, n) == UNION {[1..k -> alphabet] : k \in 0..n}

Strings == StringsOver(Chars, MaxTextLen)

\* str.replace(/[\\,]/g, (match) => `\\${match}`)
RECURSIVE EscapeSpecialsNoSemicolon(_)
EscapeSpecialsNoSemicolon(s) ==
    IF s = <<>> THEN <<>>
    ELSE (IF Head(s) \in {"\\", ","} THEN <<"\\", Head(s)>> ELSE <<Head(s)>>)
         \o EscapeSpecialsNoSemicolon(Tail(s))

\* str.replace(/[\\,;]/g, (match) => `\\${match}`)
RECURSIVE EscapeSpecials(_)
EscapeSpecials(s) ==
    IF s = <<>> THEN <<>>
    ELSE (IF Head(s) \in {"\\", ",", ";"} THEN <<"\\", Head(s)>> ELSE <<Head(s)>>)
         \o EscapeSpecials(Tail(s))

\* .replace(/\n/g, "\\n")
RECURSIVE EscapeNewlines(_)
EscapeNewlines(s) ==
    IF s = <<>> THEN <<>>
    ELSE (IF Head(s) = "\n" THEN <<"\\", "n">> ELSE <<Head(s)>>)
         \o EscapeNewlines(Tail(s))

\* str.replace(/\n/g, "\\n").replace(/[\\,;]/g, (match) => `\\${match}`)
escapeTextNewlinesFirst(s) == EscapeSpecials(EscapeNewlines(s))

\* const escapeText = (str) => str.replace(...).replace(...)
escapeText(s) == EscapeNewlines(EscapeSpecials(s))

Called(value) == [done |-> TRUE, value |-> value]

InitEscape ==
    /\ SessionInit
    /\ strArg \in Strings
    /\ escaped = NotCalled
    /\ event = NoEvent
    /\ ical = NotCalled
    /\ HandlerIdle /\ MiddlewareIdle

\* escapeText(str)
EscapeText ==
    /\ ~escaped.done
    /\ escaped' = Called(escapeText(strArg))
    /\ UNCHANGED <<sessionVars, handlerVars, middlewareVars, strArg, event, ical>>

NextEscape == EscapeText

SpecEscape == InitEscape /\ [][NextEscape]_vars

\* A Date is the instant it holds, in milliseconds counted from
\* 2024-03-31T00:00:00Z, or is an Invalid Date; undefined is no Date.
Undefined == [kind |-> "undefined"]
InvalidDate == [kind |-> "invalid"]
DateOf(ms) == [kind |-> "date", time |-> ms]

MinuteMs == 60 * 1000

\* Europe/Helsinki leaves UTC+2 for UTC+3 at 2024-03-31T01:00:00Z.
DaylightFrom == 60 * MinuteMs
OffsetAt(ms) == IF ms < DaylightFrom THEN 120 * MinuteMs ELSE 180 * MinuteMs

Pad2(n) == IF n < 10 THEN "0" \o ToString(n) ELSE ToString(n)

\* toFormat("yyyyMMdd'T'HHmmss") of a wall clock reading of 2024-03-31
FormatWall(wallMs) ==
    LET seconds == wallMs \div 1000
    IN "20240331T" \o Pad2(seconds \div 3600)
                   \o Pad2((seconds \div 60) % 60)
                   \o Pad2(seconds % 60)

\* DateTime.fromJSDate(date).setZone("Europe/Helsinki").toFormat(...):
\* what is not a valid Date formats as "Invalid DateTime".
toCalDav(date) ==
    IF date.kind = "date"
    THEN <<FormatWall(date.time + OffsetAt(date.time))>>
    ELSE <<"Invalid DateTime">>

Has(obj, field) == field \in DOMAIN obj
Get(obj, field) == IF Has(obj, field) THEN obj[field] ELSE Undefined

CR == "\r"
LF == "\n"

\* lines.join(sep) for a separator of several characters
RECURSIVE JoinLines(_, _)
JoinLines(lines, sep) ==
    IF Len(lines) = 0 THEN <<>>
    ELSE IF Len(lines) = 1 THEN lines[1]
    ELSE lines[1] \o sep \o JoinLines(Tail(lines), sep)

\* lines.join("\n")
JoinedWithLF(lines) == JoinLines(lines, <<LF>>)

\* lines.join("\r\n")
JoinedWithCRLF(lines) == JoinLines(lines, <<CR, LF>>)

\* The lines of the array literal up to BEGIN:VEVENT; each is constant text.
CalendarHead ==
    << <<"BEGIN:VCALENDAR">>, <<"VERSION:2.0">>,
       <<"PRODID:-//Standardized ICal Lib//EN">>, <<"CALSCALE:GREGORIAN">>,
       <<"BEGIN:VTIMEZONE">>, <<"TZID:Europe/Helsinki">>,
       <<"BEGIN:STANDARD">>, <<"DTSTART:20241027T030000">>,
       <<"RRULE:FREQ=YEARLY;BYMONTH=10;BYDAY=-1SU">>,
       <<"TZOFFSETFROM:+0300">>, <<"TZOFFSETTO:+0200">>, <<"TZNAME:EET">>,
       <<"END:STANDARD">>, <<"BEGIN:DAYLIGHT">>,
       <<"DTSTART:20240331T020000">>,
       <<"RRULE:FREQ=YEARLY;BYMONTH=3;BYDAY=-1SU">>,
       <<"TZOFFSETFROM:+0200">>, <<"TZOFFSETTO:+0300">>, <<"TZNAME:EEST">>,
       <<"END:DAYLIGHT">>, <<"END:VTIMEZONE">>, <<"BEGIN:VEVENT">> >>

Returns(value) == [done |-> TRUE, threw |-> FALSE, value |-> value]
Throws(error) == [done |-> TRUE, threw |-> TRUE, error |-> error]

DefaultDomain == <<"example-domain.com">>

\* if (description !== undefined)
SuppliedOrEmpty(input, field) == Has(input, field)

\* if (description) / if (location): a string that is present and not ""
Supplied(input, field) == Has(input, field) /\ input[field] # <<>>

\* generateICal(input), with the crypto.randomUUID() and the new Date() it
\* draws.  escapeText(title) calls title.replace, a TypeError on undefined.
generateICal(input, uuid, now) ==
    LET domain == IF Has(input, "domain") THEN input.domain ELSE DefaultDomain
        finalUid == IF Supplied(input, "uid") THEN input.uid
                    ELSE <<uuid, "@">> \o domain
        eventHead ==
            << <<"UID:">> \o finalUid,
               <<"DTSTAMP:">> \o toCalDav(now),
               <<"DTSTART;TZID=Europe/Helsinki:">> \o toCalDav(Get(input, "start")),
               <<"DTEND;TZID=Europe/Helsinki:">> \o toCalDav(Get(input, "end")),
               <<"SUMMARY:">> \o escapeText(input.title) >>
        descriptionLine ==
            IF Supplied(input, "description")
            THEN << <<"DESCRIPTION:">> \o escapeText(input.description) >>
            ELSE <<>>
        locationLine ==
            IF Supplied(input, "location")
            THEN << <<"LOCATION:">> \o escapeText(input.location) >>
            ELSE <<>>
        lines == CalendarHead \o eventHead \o descriptionLine \o locationLine
                 \o << <<"END:VEVENT">>, <<"END:VCALENDAR">> >>
    IN IF ~Has(input, "title") THEN Throws("TypeError")
       ELSE Returns(JoinedWithCRLF(lines))

\* The events generateICal is called with.
MaxEventText == 2

FieldChars == {"\\", ";", "\n", "n"}

\* No value, or one value of the set.
Optional(S) == {<<>>} \cup {<<x>> : x \in S}

Field(name, opt) == IF opt = <<>> THEN <<>> ELSE name :> opt[1]

\* No text, when size is 0, or a text of that many characters.
OptionalOfSize(size) ==
    (IF size = 0 THEN {<<>>} ELSE {}) \cup {<<x>> : x \in [1..size -> FieldChars]}

\* title, description and location, MaxEventText characters in all at most
TextFields ==
    UNION {OptionalOfSize(n[1]) \X OptionalOfSize(n[2]) \X OptionalOfSize(n[3]) :
           n \in {m \in (0..MaxEventText) \X (0..MaxEventText) \X (0..MaxEventText) :
                     m[1] + m[2] + m[3] <= MaxEventText}}

BeforeDaylight == DateOf(30 * MinuteMs)
AfterDaylight == DateOf(90 * MinuteMs)

\* start and end
DateFields ==
    {<<<<BeforeDaylight>>, <<AfterDaylight>>>>,
     <<<<>>, <<AfterDaylight>>>>,
     <<<<InvalidDate>>, <<AfterDaylight>>>>,
     <<<<BeforeDaylight>>, <<>>>>}

\* uid and domain
IdFields ==
    {<<<<>>, <<>>>>,
     <<<<<<"event-1">>>>, <<>>>>,
     <<<<<<>>>>, <<<<"cal.example">>>>>>}

Events ==
    {Field("title", t[1]) @@ Field("description", t[2])
        @@ Field("location", t[3]) @@ Field("start", d[1])
        @@ Field("end", d[2]) @@ Field("uid", u[1]) @@ Field("domain", u[2]) :
     t \in TextFields, d \in DateFields, u \in IdFields}

UUIDs == {"6f1c0e1a-uuid"}
Nows == {BeforeDaylight, AfterDaylight}

InitICal ==
    /\ SessionInit
    /\ strArg = <<>>
    /\ escaped = NotCalled
    /\ event \in Events
    /\ ical = NotCalled
    /\ HandlerIdle /\ MiddlewareIdle

\* generateICal(event)
GenerateICal ==
    /\ ~ical.done
    /\ \E uuid \in UUIDs, now \in Nows :
            ical' = generateICal(event, uuid, now)
    /\ UNCHANGED <<sessionVars, handlerVars, middlewareVars, strArg, escaped,
                   event>>

NextICal == GenerateICal

SpecICal == InitICal /\ [][NextICal]_vars

-----------------------------------------------------------------------------
(* The createEvent tool of the MCP server (src/mcp-server) *)

\* A string the schema's pattern \d{4}-\d{2}-\d{2}T\d{2}:\d{2}:\d{2} accepts:
\* the wall clock reading of 2024-03-31 it names, in milliseconds after
\* midnight, or one that names no time at all ("2024-13-45T99:99:99").
IsoOf(wallMs) == [names |-> TRUE, wall |-> wallMs]
IsoNoTime == [names |-> FALSE]

\* The wall clock skips from 03:00 to 04:00; luxon reads a time inside the
\* gap with the offset in force before it.
GapEnd == 240 * MinuteMs

\* DateTime.fromISO(iso, { zone: "Europe/Helsinki" }).toJSDate()
fromISO(iso) ==
    IF ~iso.names THEN InvalidDate
    ELSE IF iso.wall < GapEnd THEN DateOf(iso.wall - 120 * MinuteMs)
    ELSE DateOf(iso.wall - 180 * MinuteMs)

\* new Date(startDate.getTime())
DefaultEndSameInstant(start) == start

\* new Date(startDate.getTime() + 60 * 60 * 1000); NaN stays NaN
DefaultEnd(start) ==
    IF start.kind = "date" THEN DateOf(start.time + 60 * 60 * 1000)
    ELSE InvalidDate

\* const endDate = end ? fromISO(end) : DefaultEnd(startDate)
EndDateOf(input, start) ==
    IF Has(input, "end") THEN fromISO(input.end) ELSE DefaultEnd(start)

\* createEvent({ start: startDate, end: endDate, title, description, location })
CreateEventCall(input, start, end) ==
    [op |-> "createEvent",
     event |-> [start |-> start, end |-> end, title |-> input.title]
               @@ Field("description", IF Has(input, "description")
                                       THEN <<input.description>> ELSE <<>>)
               @@ Field("location", IF Has(input, "location")
                                    THEN <<input.location>> ELSE <<>>)]

\* getEventByUrl(eventUrl)
GetEventByUrlCall(url) == [op |-> "getEventByUrl", url |-> url]

EventUrls == {"/cal/1.ics"}

\* What icsToJson(newEvent.data) can give for the fetched record.
ParsedEvents ==
    {<<[startDate |-> <<"S">>, endDate |-> <<"E">>]>>,
     <<[endDate |-> <<"E">>]>>,
     <<[startDate |-> <<"S">>]>>,
     <<>>}

CreatedText(title, parsed) ==
    <<"Event created successfully for \"">> \o title \o <<"\" from ">>
        \o parsed.startDate \o <<" to ">> \o parsed.endDate \o <<".">>

\* catch (error) { return "Failed to create event: " + error.message }
CreateEventFailed(errorMessage) ==
    Returns(TextResult(<<FailurePrefix("createEvent"), " ">> \o errorMessage))

\* Lines 259-271: after getEventByUrl resolved
AfterGetEventByUrl(input, parsed) ==
    IF Len(parsed) = 0
    THEN CreateEventFailed(<<"Cannot read properties of undefined">>)
    ELSE IF ~Has(parsed[1], "startDate") \/ ~Has(parsed[1], "endDate")
    THEN CreateEventFailed(<<"Event not created">>)
    ELSE Returns(TextResult(CreatedText(input.title, parsed[1])))

\* The inputs the schema lets through to the handler.
CreateEventInputs ==
    {[start |-> st, title |-> <<"Lunch">>]
        @@ Field("end", en) @@ Field("description", de) @@ Field("location", lo) :
     st \in {IsoOf(150 * MinuteMs), IsoOf(210 * MinuteMs),
             IsoOf(270 * MinuteMs), IsoNoTime},
     en \in Optional({IsoOf(330 * MinuteMs), IsoNoTime}),
     de \in Optional({<<"notes">>}),
     lo \in Optional({<<"office">>})}

InitCreate ==
    /\ SessionInit /\ CodecIdle /\ MiddlewareIdle
    /\ hpc = "idle"
    /\ toolInput \in CreateEventInputs
    /\ startDate = NoEvent
    /\ endDate = NoEvent
    /\ calendar = {}
    /\ backendCalls = <<>>
    /\ toolResult = NotCalled

\* The handler up to await createEvent(...)
InvokeCreateEvent ==
    /\ hpc = "idle"
    /\ LET start == fromISO(toolInput.start)
           end == EndDateOf(toolInput, start)
       IN /\ startDate' = start
          /\ endDate' = end
          /\ backendCalls' =
                Append(backendCalls, CreateEventCall(toolInput, start, end))
    /\ hpc' = "createEvent"
    /\ UNCHANGED <<toolInput, calendar, toolResult>>
    /\ UNCHANGED <<sessionVars, codecVars, middlewareVars>>

\* createEvent resolves: the backend holds the event; up to
\* await getEventByUrl(eventUrl)
CreateEventResolved ==
    /\ hpc = "createEvent"
    /\ \E url \in EventUrls :
        /\ calendar' = calendar \cup
              {[url |-> url, event |-> backendCalls[Len(backendCalls)].event]}
        /\ backendCalls' = Append(backendCalls, GetEventByUrlCall(url))
    /\ hpc' = "getEventByUrl"
    /\ UNCHANGED <<toolInput, startDate, endDate, toolResult>>
    /\ UNCHANGED <<sessionVars, codecVars, middlewareVars>>

\* createEvent rejects: the backend holds nothing new
CreateEventRejected ==
    /\ hpc = "createEvent"
    /\ \E e \in BackendErrors : toolResult' = CreateEventFailed(e)
    /\ hpc' = "done"
    /\ UNCHANGED <<toolInput, startDate, endDate, calendar, backendCalls>>
    /\ UNCHANGED <<sessionVars, codecVars, middlewareVars>>

\* getEventByUrl resolves
GetEventByUrlResolved ==
    /\ hpc = "getEventByUrl"
    /\ \E parsed \in ParsedEvents :
            toolResult' = AfterGetEventByUrl(toolInput, parsed)
    /\ hpc' = "done"
    /\ UNCHANGED <<toolInput, startDate, endDate, calendar, backendCalls>>
    /\ UNCHANGED <<sessionVars, codecVars, middlewareVars>>

\* getEventByUrl rejects
GetEventByUrlRejected ==
    /\ hpc = "getEventByUrl"
    /\ \E e \in BackendErrors : toolResult' = CreateEventFailed(e)
    /\ hpc' = "done"
    /\ UNCHANGED <<toolInput, startDate, endDate, calendar, backendCalls>>
    /\ UNCHANGED <<sessionVars, codecVars, middlewareVars>>

NextCreate ==
    \/ InvokeCreateEvent
    \/ CreateEventResolved
    \/ CreateEventRejected
    \/ GetEventByUrlResolved
    \/ GetEventByUrlRejected

SpecCreate == InitCreate /\ [][NextCreate]_vars

-----------------------------------------------------------------------------
(* The audioTranscription middleware (src/middlewares) on the route        *)
(* POST /: upload.fields([{ name: "audio", maxCount: 1 }]),                *)
(* audioTranscription, postMcpClient                                       *)

\* req.body.prompt, when the request has one
Prompts ==
    {<<>>, <<"book">>, <<"book", " ", "lunch">>, <<"book", "\n">>,
     <<"what", " ", "is", " ", "on", " ", "today">>}

\* transcriptionResponse.text
Transcripts == {<<>>, <<"lunch">>, <<"lunch", " ", "at", " ", "noon">>}

AudioFile == [fieldname |-> "audio", originalname |-> "a.webm"]

\* req.files: undefined when the request is not multipart, else what multer
\* collected for the field "audio", if anything.
Requests ==
    {[body |-> Field("prompt", p)] @@ Field("files", f) :
        p \in Optional(Prompts),
        f \in Optional({EmptyArgs, [audio |-> <<>>], [audio |-> <<AudioFile>>]})}

\* !audioFiles || audioFiles.length === 0, with audioFiles = files?.audio
NoAudio(r) ==
    \/ ~Has(r, "files")
    \/ ~Has(r.files, "audio")
    \/ Len(r.files.audio) = 0

\* next()
PassOn(b) == [kind |-> "next", body |-> b]

\* next(new CustomError("Failed to transcribe audio", 500))
FailedToTranscribe ==
    [kind |-> "error", status |-> 500, message |-> "Failed to transcribe audio"]

\* catch (error) { next(new CustomError(...)) }
CatchBlock(calls) == Append(calls, FailedToTranscribe)

\* next(); without the return the code runs on to audioFiles[0] and its
\* use, which throws inside the try
NoAudioBranchNoReturn(b, calls) == CatchBlock(Append(calls, PassOn(b)))

\* return next();
NoAudioBranch(b, calls) == Append(calls, PassOn(b))

\* const existingPrompt = req.body.prompt || ""; req.body.prompt = ...
WithTranscript(b, transcript) ==
    LET existingPrompt == IF Has(b, "prompt") THEN b.prompt ELSE <<>>
    IN [prompt |->
          IF existingPrompt # <<>>
          THEN existingPrompt \o <<"\n", "\n", "[Audio transcription: ">>
                   \o transcript \o <<"]">>
          ELSE transcript]

InitMiddleware ==
    /\ SessionInit /\ CodecIdle /\ HandlerIdle
    /\ mpc = "idle"
    /\ req \in Requests
    /\ body = req.body
    /\ proxyUrl \in BOOLEAN
    /\ nextCalls = <<>>

\* audioTranscription(req, res, next) up to await fetchData(...)
AudioTranscription ==
    /\ mpc = "idle"
    /\ IF NoAudio(req)
       THEN /\ nextCalls' = NoAudioBranch(body, nextCalls)
            /\ mpc' = "done"
       ELSE IF ~proxyUrl
       THEN /\ nextCalls' = CatchBlock(nextCalls)
            /\ mpc' = "done"
       ELSE /\ nextCalls' = nextCalls
            /\ mpc' = "transcribe"
    /\ UNCHANGED <<req, body, proxyUrl>>
    /\ UNCHANGED <<sessionVars, codecVars, handlerVars>>

\* fetchData resolves with the transcription
TranscriptionResolved ==
    /\ mpc = "transcribe"
    /\ \E transcript \in Transcripts :
        /\ body' = WithTranscript(body, transcript)
        /\ nextCalls' = Append(nextCalls, PassOn(body'))
    /\ mpc' = "done"
    /\ UNCHANGED <<req, proxyUrl>>
    /\ UNCHANGED <<sessionVars, codecVars, handlerVars>>

\* fetchData rejects
TranscriptionRejected ==
    /\ mpc = "transcribe"
    /\ nextCalls' = CatchBlock(nextCalls)
    /\ mpc' = "done"
    /\ UNCHANGED <<req, body, proxyUrl>>
    /\ UNCHANGED <<sessionVars, codecVars, handlerVars>>

NextMiddleware ==
    \/ AudioTranscription
    \/ TranscriptionResolved
    \/ TranscriptionRejected

SpecMiddleware == InitMiddleware /\ [][NextMiddleware]_vars

-----------------------------------------------------------------------------
(* Properties *)

Finished(s) == pc[s] \in {"close", "done"}

\* The message has no tool invocations: tool_calls missing or empty.
NoInvocations(m) == ~("tool_calls" \in DOMAIN m) \/ m.tool_calls = <<>>

ToolMessages(msgs) == {k \in 1..Len(msgs) : msgs[k].role = "tool"}

\* A tool message that reports a failure of the tool.
ReportsFailure(m) ==
    m.content[1] \in FailurePrefixes \/ m.content = InvalidArgumentsText

\* C1: in every session the chat endpoint is queried at most maxRounds = 5
\* times, and once five rounds with tool invocations are over the session is
\* past its loop: no chat request is outstanding or sent.
C1_AtMostFiveChatRequests ==
    \A s \in Sessions :
        /\ chatRequests[s] <= maxRounds
        /\ round[s] <= maxRounds
        /\ round[s] = maxRounds => Finished(s)

C1_Witness ==
    /\ pc[1] = "done"
    /\ round[1] = maxRounds
    /\ chatRequests[1] = maxRounds
    /\ result[1].kind = "returned"

\* C2: when the first assistant message (messages[3]) has no tool
\* invocations, the session has sent exactly one chat request, has called no
\* tool, holds a conversation of three messages and returns toolCalls = 0
\* with the answer taken from that message (its content, or "" when the
\* content is missing, trimmed); nothing can make it fail any more.
C2_NoToolsOneRound ==
    \A s \in Sessions :
        (Len(messages[s]) >= 3 /\ NoInvocations(messages[s][3])) =>
            /\ chatRequests[s] = 1
            /\ callLog[s] = <<>>
            /\ Len(messages[s]) = 3
            /\ Finished(s)
            /\ completion[s] = Returned(Trim(ContentOrEmpty(messages[s][3])), 0)
            /\ pc[s] = "done" => result[s] = completion[s]

C2_Witness ==
    /\ pc[1] = "done"
    /\ Len(messages[1]) = 3
    /\ messages[1][3] = [role |-> "assistant", content |-> <<" ", "answer", "\n">>,
                         tool_calls |-> <<>>]
    /\ result[1] = Returned(<<"answer">>, 0)

\* C3: a session whose five rounds all carried tool invocations, in which no
\* awaited operation rejected and no tool reported a failure, returns
\* normally, and its answer is the content of the last message of the
\* conversation (the last tool result).
C3_RoundCapReturnsLastContent ==
    \A s \in Sessions :
        ( /\ Finished(s)
          /\ round[s] = maxRounds
          /\ rejected[s] = "none"
          /\ \A k \in ToolMessages(messages[s]) : ~ReportsFailure(messages[s][k]) )
        => /\ completion[s].kind = "returned"
           /\ completion[s].answer = messages[s][Len(messages[s])].content
           /\ completion[s].toolCalls = Len(toolCalls[s])
           /\ pc[s] = "done" => result[s] = completion[s]

C3_Witness ==
    /\ pc[1] = "done"
    /\ round[1] = maxRounds
    /\ rejected[1] = "none"
    /\ \A k \in ToolMessages(messages[1]) : ~ReportsFailure(messages[1][k])
    /\ messages[1][Len(messages[1])].role = "tool"
    /\ result[1].kind = "returned"
    /\ result[1].answer = SuccessText("listEvents")

\* The invocations of the assistant messages of a conversation, in order.
RECURSIVE Invocations(_)
Invocations(msgs) ==
    IF Len(msgs) = 0 THEN <<>>
    ELSE LET m == msgs[Len(msgs)]
         IN  Invocations(SubSeq(msgs, 1, Len(msgs) - 1))
             \o (IF m.role = "assistant" /\ "tool_calls" \in DOMAIN m
                 THEN m.tool_calls ELSE <<>>)

\* A callTool request is outstanding, or was when the session failed.
Unanswered(s) == Bit(pc[s] = "callTool" \/ rejected[s] = "callTool")

\* C4: every invocation whose iteration began reached callTool; one whose
\* payload is not JSON was sent with empty arguments; every answered
\* callTool has its tool message in the conversation; a session fails only
\* by a rejected awaited operation (never by the parse error); and a session
\* that returns has executed every invocation of every assistant message.
C4_BadPayloadRunsWithEmptyArgs ==
    \A s \in Sessions :
        LET inv == Invocations(messages[s]) IN
        /\ Len(callLog[s]) = Len(toolCalls[s])
        /\ Len(callLog[s]) <= Len(inv)
        /\ \A j \in 1..Len(callLog[s]) :
              /\ callLog[s][j].name = inv[j].function.name
              /\ ~ParsesAsJson(inv[j].function.arguments)
                    => callLog[s][j].arguments = EmptyArgs
        /\ Cardinality(ToolMessages(messages[s])) = Len(callLog[s]) - Unanswered(s)
        /\ completion[s].kind = "failed" =>
              /\ rejected[s] # "none"
              /\ completion[s].cause = rejected[s]
        /\ completion[s].kind = "returned" => Len(callLog[s]) = Len(inv)

\* A message with two invocations, the first with a payload that is not
\* JSON; both were executed, a further round followed, the session returned.
C4_Witness ==
    /\ pc[1] = "done"
    /\ result[1].kind = "returned"
    /\ Len(messages[1]) >= 7
    /\ "tool_calls" \in DOMAIN messages[1][3]
    /\ Len(messages[1][3].tool_calls) = 2
    /\ messages[1][3].tool_calls[1].function.arguments = BadPayload
    /\ callLog[1][1].arguments = EmptyArgs
    /\ messages[1][4].role = "tool"
    /\ messages[1][5].role = "tool"
    /\ messages[1][6].role = "assistant"

\* The nearest assistant message before position k.
NearestAssistant(msgs, k) ==
    MaxOf({i \in 1..(k - 1) : msgs[i].role = "assistant"})

\* The invocations of tcs whose id is id.
Matches(tcs, id) == {j \in 1..Len(tcs) : tcs[j].id = id}

\* C5 as claimed: every tool message's tool_call_id matches exactly one
\* invocation id of the nearest preceding assistant message.
C5_ExactlyOneMatch ==
    \A s \in Sessions : \A k \in ToolMessages(messages[s]) :
        LET tcs == messages[s][NearestAssistant(messages[s], k)].tool_calls
        IN  Cardinality(Matches(tcs, messages[s][k].tool_call_id)) = 1

\* C5 as amended: every tool message's tool_call_id is the id of the
\* invocation at the same position of the nearest preceding assistant
\* message, so it matches at least one invocation id of that message, and
\* exactly one when the ids of that message are pairwise distinct.
C5_MatchesInvocationAtPosition ==
    \A s \in Sessions : \A k \in ToolMessages(messages[s]) :
        LET a == NearestAssistant(messages[s], k)
            tcs == messages[s][a].tool_calls
            id == messages[s][k].tool_call_id
        IN  /\ k - a <= Len(tcs)
            /\ tcs[k - a].id = id
            /\ Cardinality(Matches(tcs, id)) >= 1
            /\ (\A i, j \in 1..Len(tcs) : tcs[i].id = tcs[j].id => i = j)
                  => Cardinality(Matches(tcs, id)) = 1

\* A tool message whose id is carried by two invocations of its message.
C5_Witness ==
    \E k \in ToolMessages(messages[1]) :
        LET tcs == messages[1][NearestAssistant(messages[1], k)].tool_calls
        IN  Cardinality(Matches(tcs, messages[1][k].tool_call_id)) = 2

\* C6: close() is called once, on entering finally, on every path; the
\* transport is closed when the invocation settles, and the caller sees the
\* result or the failure only after that.
C6_ClosedOnceBeforeResult ==
    \A s \in Sessions :
        /\ closes[s] <= 1
        /\ closes[s] = 1 <=> Finished(s)
        /\ transport[s] = "closed" <=> pc[s] = "done"
        /\ result[s] # Pending => transport[s] = "closed" /\ closes[s] = 1
        /\ pc[s] = "done" => result[s] = completion[s] /\ result[s] # Pending
        /\ rejected[s] # "none" => Finished(s)

C6_Witness ==
    /\ pc[1] = "done"
    /\ rejected[1] = "callTool"
    /\ result[1] = Thrown("callTool")
    /\ transport[1] = "closed"
    /\ closes[1] = 1

\* A tool handler caught an error of the calendar backend.
HandlerCaughtError(s) ==
    \E k \in ToolMessages(messages[s]) : messages[s][k].content[1] \in FailurePrefixes

\* C7 as claimed: a session in which an awaited operation rejected or a tool
\* handler hit a calendar backend error ends as a failure, never as a
\* returned answer.
C7_EveryFailureReported ==
    \A s \in Sessions :
        (pc[s] = "done" /\ (rejected[s] # "none" \/ HandlerCaughtError(s)))
            => result[s].kind = "failed"

\* C7 as amended: a rejected connect, listTools, chat request or callTool
\* ends the session as that failure, never as a returned answer, and a
\* session fails in no other way: a backend error a handler caught is an
\* ordinary tool result.
C7_RejectionsReported ==
    \A s \in Sessions :
        /\ rejected[s] # "none" =>
              /\ Finished(s)
              /\ completion[s] = Thrown(rejected[s])
              /\ pc[s] = "done" => result[s] = Thrown(rejected[s])
        /\ rejected[s] = "none" =>
              /\ completion[s].kind # "failed"
              /\ result[s].kind # "failed"

\* A handler reported a backend error in round one, the session went on,
\* and a later callTool rejected.
C7_Witness ==
    /\ pc[1] = "done"
    /\ HandlerCaughtError(1)
    /\ round[1] >= 1
    /\ rejected[1] = "callTool"
    /\ result[1] = Thrown("callTool")

\* C8: the tool messages after the latest assistant message answer its
\* invocations in their order, one each; a callTool request is outstanding
\* only for the invocation right after the answered ones; the peer received
\* the requests in the order of the invocations.
C8_InvocationsInOrder ==
    \A s \in Sessions :
        Len(messages[s]) >= 3 =>
            LET a == NearestAssistant(messages[s], Len(messages[s]) + 1)
                answered == Len(messages[s]) - a
                tcs == IF "tool_calls" \in DOMAIN messages[s][a]
                       THEN messages[s][a].tool_calls ELSE <<>>
                inv == Invocations(messages[s])
            IN  /\ answered <= Len(tcs)
                /\ \A i \in 1..answered :
                      /\ messages[s][a + i].role = "tool"
                      /\ messages[s][a + i].tool_call_id = tcs[i].id
                /\ pc[s] = "callTool" => cur[s] = answered + 1
                /\ Len(callLog[s]) =
                      Cardinality(ToolMessages(messages[s])) + Unanswered(s)
                /\ \A j \in 1..Len(callLog[s]) :
                      callLog[s][j].name = inv[j].function.name

\* The second of two invocations with different ids and names is outstanding.
C8_Witness ==
    /\ pc[1] = "callTool"
    /\ cur[1] = 2
    /\ Len(messages[1]) = 4
    /\ messages[1][3].tool_calls[1].id # messages[1][3].tool_calls[2].id
    /\ messages[1][3].tool_calls[1].function.name
          # messages[1][3].tool_calls[2].function.name
    /\ messages[1][4].tool_call_id = messages[1][3].tool_calls[1].id

\* C9: once seeded, the conversation starts with the system and the user
\* message, and every step leaves it unchanged or appends one message.
C9_AppendOnly ==
    /\ [](\A s \in Sessions :
            messages[s] = <<>> \/ SubSeq(messages[s], 1, 2) = Seed(s))
    /\ [][\A s \in Sessions :
            \/ messages'[s] = messages[s]
            \/ messages[s] = <<>> /\ messages'[s] = Seed(s)
            \/ /\ Len(messages[s]) >= 2
               /\ Len(messages'[s]) = Len(messages[s]) + 1
               /\ SubSeq(messages'[s], 1, Len(messages[s])) = messages[s]]_vars

C9_Witness ==
    /\ pc[1] = "done"
    /\ Len(messages[1]) = 8
    /\ result[1].kind = "returned"

\* C10: with invocations interleaved at their awaits, every message of a
\* conversation was pushed by the conversation's own invocation, and a step
\* of one invocation changes no other invocation's conversation, counters or
\* transport.
C10_SessionsIndependent ==
    /\ [](\A s \in Sessions :
            /\ Len(origin[s]) = Len(messages[s])
            /\ \A k \in 1..Len(origin[s]) : origin[s][k] = s
            /\ Len(messages[s]) >= 2 => messages[s][2].content = PromptOf(s))
    /\ [][\E s \in Sessions :
            \A t \in Sessions \ {s} :
                /\ <<messages[t], toolCalls[t], round[t]>>'
                      = <<messages[t], toolCalls[t], round[t]>>
                /\ <<transport[t], closes[t], pc[t]>>'
                      = <<transport[t], closes[t], pc[t]>>]_vars

\* One invocation is done and closed while the other, two rounds in, still
\* waits for a tool.
C10_Witness ==
    /\ pc[1] = "done"
    /\ transport[1] = "closed"
    /\ pc[2] = "callTool"
    /\ transport[2] = "started"
    /\ round[2] = 1
    /\ round[1] = maxRounds


-----------------------------------------------------------------------------
(* C11: escapeText puts one backslash before each backslash, comma and     *)
(* semicolon and writes each newline as backslash, "n"; read left to       *)
(* right its output has no comma or semicolon without a backslash before   *)
(* it, no backslash that does not start an escape, and no raw newline.     *)

\* The escape of one character, as the claim states it.
EscapeOf(c) ==
    CASE c \in {"\\", ",", ";"} -> <<"\\", c>>
      [] c = "\n" -> <<"\\", "n">>
      [] OTHER -> <<c>>

RECURSIVE EscapedCharByChar(_)
EscapedCharByChar(s) ==
    IF s = <<>> THEN <<>> ELSE EscapeOf(Head(s)) \o EscapedCharByChar(Tail(s))

RECURSIVE WellEscaped(_)
WellEscaped(s) ==
    IF s = <<>> THEN TRUE
    ELSE IF Head(s) = "\\"
         THEN /\ Len(s) >= 2
              /\ s[2] \in {"\\", ",", ";", "n"}
              /\ WellEscaped(SubSeq(s, 3, Len(s)))
         ELSE /\ Head(s) \notin {",", ";", "\n"}
              /\ WellEscaped(Tail(s))

Range(f) == {f[i] : i \in DOMAIN f}

C11_EscapeTextEscapes ==
    escaped.done =>
        /\ escaped.value = EscapedCharByChar(strArg)
        /\ WellEscaped(escaped.value)

C11_Witness ==
    /\ escaped.done
    /\ {"\\", ";", "\n"} \subseteq Range(strArg)

-----------------------------------------------------------------------------
(* Reading a record back: its lines, and the text of an escaped value *)

Returned_ICal == ical.done /\ ~ical.threw

\* The lines of s from position from on, the scan standing at position i.
RECURSIVE SplitFrom(_, _, _)
SplitFrom(s, from, i) ==
    IF i >= Len(s) THEN <<SubSeq(s, from, Len(s))>>
    ELSE IF s[i] = CR /\ s[i + 1] = LF
         THEN <<SubSeq(s, from, i - 1)>> \o SplitFrom(s, i + 2, i + 2)
         ELSE SplitFrom(s, from, i + 1)

SplitAtCRLF(s) == SplitFrom(s, 1, 1)

\* The positions of the lines of a property.
LinesNamed(ls, name) == {i \in 1..Len(ls) : ls[i] # <<>> /\ ls[i][1] = name}

\* A parser's reversal of the escaping: backslash, "n" is a newline, any
\* other character after a backslash is itself.
RECURSIVE Unescape(_)
Unescape(s) ==
    IF s = <<>> THEN <<>>
    ELSE IF Head(s) = "\\" /\ Len(s) >= 2
         THEN <<IF s[2] = "n" THEN "\n" ELSE s[2]>>
              \o Unescape(SubSeq(s, 3, Len(s)))
         ELSE <<Head(s)>> \o Unescape(Tail(s))

\* The record has one line of the property and it reads back as the text.
ReadsBack(ls, name, original) ==
    /\ Cardinality(LinesNamed(ls, name)) = 1
    /\ \A i \in LinesNamed(ls, name) : Unescape(Tail(ls[i])) = original

\* The caller gave the field a text that is not empty.
GaveText(field) == Has(event, field) /\ Len(event[field]) > 0

(* C12: the escaping generateICal applies can be reversed: unescaping the  *)
(* SUMMARY, DESCRIPTION and LOCATION values of the record gives back the   *)
(* title, description and location; a newline and a literal backslash      *)
(* followed by "n" stay distinct.                                          *)
C12_EscapingReversible ==
    Returned_ICal =>
        LET ls == SplitAtCRLF(ical.value)
        IN /\ ReadsBack(ls, "SUMMARY:", event.title)
           /\ GaveText("description") =>
                  ReadsBack(ls, "DESCRIPTION:", event.description)
           /\ GaveText("location") =>
                  ReadsBack(ls, "LOCATION:", event.location)

C12_Witness ==
    /\ Returned_ICal
    /\ event.title = <<"\\", "n">>

(* C13: generateICal fails on an event without a title or without a start, *)
(* and a record it returns has a SUMMARY line and a DTSTART whose value is *)
(* a timestamp.                                                            *)
WellFormedTimestamp(value) == value # <<"Invalid DateTime">> /\ Len(value) = 1

C13_MissingRequiredFieldFails ==
    ical.done =>
        /\ (~Has(event, "title") \/ ~Has(event, "start")) => ical.threw
        /\ ~ical.threw =>
              LET ls == SplitAtCRLF(ical.value)
              IN /\ LinesNamed(ls, "SUMMARY:") # {}
                 /\ \A i \in LinesNamed(ls, "DTSTART;TZID=Europe/Helsinki:") :
                        WellFormedTimestamp(Tail(ls[i]))

(* C16: the record has a DESCRIPTION line exactly when a non-empty         *)
(* description was given and a LOCATION line exactly when a non-empty      *)
(* location was given; these lines stand after SUMMARY and before          *)
(* END:VEVENT, DESCRIPTION before LOCATION.                                *)
C16_OptionalLines ==
    Returned_ICal =>
        LET ls == SplitAtCRLF(ical.value)
            summary == LinesNamed(ls, "SUMMARY:")
            description == LinesNamed(ls, "DESCRIPTION:")
            location == LinesNamed(ls, "LOCATION:")
            endEvent == LinesNamed(ls, "END:VEVENT")
            bit(b) == IF b THEN 1 ELSE 0
        IN /\ Cardinality(description) = bit(GaveText("description"))
           /\ Cardinality(location) = bit(GaveText("location"))
           /\ Cardinality(summary) = 1 /\ Cardinality(endEvent) = 1
           /\ \A i \in summary, j \in description \cup location,
                 k \in endEvent : i < j /\ j < k
           /\ \A i \in description, j \in location : i < j
           /\ \A i \in summary, k \in endEvent :
                 k - i = 1 + Cardinality(description) + Cardinality(location)

C16_Witness ==
    /\ Returned_ICal
    /\ GaveText("description") /\ Has(event, "location")
    /\ ~GaveText("location")

-----------------------------------------------------------------------------
\* The calls of one operation the calendar backend received.
CallsOf(op) == {i \in 1..Len(backendCalls) : backendCalls[i].op = op}

ToolReportsFailure ==
    /\ toolResult.done
    /\ toolResult.value.content[1].text[1] = "Failed to create event:"

(* C14: a createEvent invocation commits nothing it reports as failed:     *)
(* when it answers "Failed to create event" the calendar holds no event of *)
(* the invocation, and the invocation calls the backend once.              *)
C14_NoPartialCommit ==
    /\ ToolReportsFailure => calendar = {}
    /\ Len(backendCalls) <= 1

(* C15: when createEvent is invoked without an end, the end it passes to   *)
(* the backend is the instant 3600 seconds after the start it passes; an   *)
(* end that is given is passed as the instant it names.                    *)
C15_DefaultEndOneHourLater ==
    \A i \in CallsOf("createEvent") :
        LET passed == backendCalls[i].event
        IN /\ passed.start = fromISO(toolInput.start)
           /\ Has(toolInput, "end") => passed.end = fromISO(toolInput.end)
           /\ ~Has(toolInput, "end") =>
                 IF passed.start.kind = "date"
                 THEN /\ passed.end.kind = "date"
                      /\ passed.end.time - passed.start.time = 3600 * 1000
                 ELSE passed.end.kind = "invalid"

C15_Witness ==
    /\ CallsOf("createEvent") # {}
    /\ ~Has(toolInput, "end")
    /\ toolInput.start = IsoOf(150 * MinuteMs)
    /\ toCalDav(endDate) = <<"20240331T043000">>

-----------------------------------------------------------------------------
\* The prompt the request arrived with, "" when it had none.
ArrivedPrompt == IF Has(req.body, "prompt") THEN req.body.prompt ELSE <<>>

\* The prompt a request with audio may be passed on with.
Transcribed(prompt) ==
    \E transcript \in Transcripts :
        prompt = IF ArrivedPrompt = <<>> THEN transcript
                 ELSE ArrivedPrompt \o <<"\n", "\n", "[Audio transcription: ">>
                          \o transcript \o <<"]">>

(* C19: audioTranscription calls next exactly once for a request.  Without *)
(* audio it passes the request on with its body as it arrived; with audio  *)
(* it passes it on with the transcript after the arrived prompt, or as the *)
(* prompt when there was none, or else it passes on an error of status     *)
(* 500, which it always does when the proxy is not configured.             *)
C19_TranscriptionMiddleware ==
    /\ Len(nextCalls) <= 1
    /\ mpc = "done" =>
          /\ Len(nextCalls) = 1
          /\ NoAudio(req) => nextCalls[1] = PassOn(req.body)
          /\ ~NoAudio(req) =>
                IF nextCalls[1].kind = "next"
                THEN proxyUrl /\ Transcribed(nextCalls[1].body.prompt)
                ELSE nextCalls[1].status = 500

C19_Witness ==
    /\ mpc = "done"
    /\ ~NoAudio(req)
    /\ ArrivedPrompt = <<"book", " ", "lunch">>
    /\ nextCalls = <<PassOn([prompt |->
          <<"book", " ", "lunch", "\n", "\n", "[Audio transcription: ",
            "lunch", " ", "at", " ", "noon", "]">>])>>

-----------------------------------------------------------------------------
\* The last message of the conversation is an assistant message without
\* invocations whose content is missing or empty.
EndsWithEmptyAnswer(s) ==
    /\ Len(messages[s]) > 0
    /\ LET m == messages[s][Len(messages[s])]
       IN /\ m.role = "assistant"
          /\ NoInvocations(m)
          /\ ~("content" \in DOMAIN m) \/ m.content = <<>>

(* C18: when the conversation ends with a message of missing or empty      *)
(* content and no invocations, callMcpClient returns the answer "" with    *)
(* the count of invocations made; it does not fail.                        *)
C18_EmptyContentReturnsEmptyAnswer ==
    \A s \in Sessions :
        EndsWithEmptyAnswer(s) =>
            /\ Finished(s)
            /\ completion[s] = Returned(<<>>, Len(toolCalls[s]))
            /\ pc[s] = "done" => result[s] = completion[s]

C18_Witness ==
    /\ pc[1] = "done"
    /\ EndsWithEmptyAnswer(1)
    /\ ~("content" \in DOMAIN messages[1][Len(messages[1])])
    /\ Len(toolCalls[1]) > 0
    /\ result[1] = Returned(<<>>, Len(toolCalls[1]))

-----------------------------------------------------------------------------
(* C20: when every awaited operation is eventually settled, a session that *)
(* was started eventually returns a result or fails, having sent at most   *)
(* maxRounds chat requests however many invocations its rounds carried.    *)
C20_SessionEnds ==
    (pc[1] # "idle") ~>
        /\ pc[1] = "done"
        /\ result[1].kind \in {"returned", "failed"}
        /\ chatRequests[1] <= maxRounds

\* A session that ended at the round cap with more invocations than rounds.
C20_Witness ==
    /\ pc[1] = "done"
    /\ result[1].kind = "returned"
    /\ round[1] = maxRounds
    /\ chatRequests[1] = maxRounds
    /\ result[1].toolCalls > maxRounds

-----------------------------------------------------------------------------
(* C21: when callMcpClient returns, the toolCalls count it returns is the  *)
(* number of tool messages of the conversation and the number of           *)
(* invocations its assistant messages carry; at every moment of a session  *)
(* the counter is the number of tool messages, or one more while a         *)
(* callTool request is unanswered.                                         *)
C21_ToolCallsCountsToolMessages ==
    \A s \in Sessions :
        LET counter == Len(toolCalls[s])
            answered == Cardinality(ToolMessages(messages[s]))
        IN  /\ answered <= counter
            /\ counter <= answered + 1
            /\ counter = answered + 1 =>
                  pc[s] = "callTool" \/ rejected[s] = "callTool"
            /\ completion[s].kind = "returned" =>
                  /\ completion[s].toolCalls = counter
                  /\ counter = answered
                  /\ counter = Len(Invocations(messages[s]))
            /\ result[s].kind = "returned" => result[s] = completion[s]

C21_Witness ==
    /\ pc[1] = "done"
    /\ result[1].kind = "returned"
    /\ result[1].toolCalls = 3
    /\ Cardinality(ToolMessages(messages[1])) = 3
    /\ \E k \in 1..Len(messages[1]) :
          /\ messages[1][k].role = "assistant"
          /\ "tool_calls" \in DOMAIN messages[1][k]
          /\ Len(messages[1][k].tool_calls) = 2
=============================================================================
